---- MODULE Spec2Model ----
(***************************************************************************)
(* Credential session lifecycle of the Locki ID add-on.                    *)
(*                                                                         *)
(* src/__init__.py holds the accessors, token_expires and the five         *)
(* operators (login, validate, logout, refresh-nonce, refresh-NFTs).       *)
(* The modules it imports (profiles, communication, mvx_requests) are not  *)
(* part of the available source; their operations are modelled from the    *)
(* specification (sections 4.1 - 4.3, 6, 7) and are marked as such.        *)
(*                                                                         *)
(* Conventions                                                             *)
(*   - Python None is NoneStr (an error string or None), NoneInstant (a    *)
(*     datetime or None) or NoProfile, so that a value has one shape.      *)
(*   - A message of the preferences is the tuple of its pieces, <<>> when  *)
(*     empty; a popup is a record: f"{count} NFTs loaded" is kind "nfts"   *)
(*     with n = count, f"Nonce: {nonce}" is kind "nonce" with n = nonce.   *)
(*   - A remote call is its outcome, drawn by the action that makes it.    *)
(*   - An expiry string is a record: its layout (the literal skeleton of   *)
(*     the text) and the digits found in the numeric positions.            *)
(***************************************************************************)
EXTENDS Integers, Sequences, FiniteSets, TLC

VARIABLES
    profile,   \* LockiIdProfile class attributes: the in-memory Session
    disk,      \* the persisted JSON file
    prefs,     \* LockiIdPreferences: address, api_key, nonce, messages
    last,      \* trace of the operator that ran last
    expiry,    \* trace of the calls of token_expires()
    panel      \* what LockiIdPreferences.draw laid out last

vars == <<profile, disk, prefs, last, expiry, panel>>

----------------------------------------------------------------------------
(* Bounds of the model *)

MaxNonce == 1
MaxHoldings == 2

----------------------------------------------------------------------------
(* Input domains *)

Addresses == {"", "erd1a", "erd1b"}
ApiKeys == {"", "key-good"}
ValidKeys == {"key-good"}
Tokens == {"tok1", "tok2"}
Nonces == 0..MaxNonce

\* Expiry strings.  layout names the literal skeleton of the text:
\*   "empty"     ''
\*   "iso_z"     2024-02-29T23:59:59Z
\*   "iso_frac"  2024-02-29T23:59:59.000000Z
\*   "rfc1123"   Thu, 29 Feb 2024 23:59:59 GMT
\*   "iso_noz"   2024-02-29T23:59:59          (no Z suffix)
\*   "iso_off"   2024-02-29T23:59:59+00:00    (numeric offset)
Layouts == {"empty", "iso_z", "iso_frac", "rfc1123", "iso_noz", "iso_off"}

EStr(l, y, mo, d, h, mi, s, us) ==
    [layout |-> l, Y |-> y, mo |-> mo, d |-> d, H |-> h, Mi |-> mi, S |-> s, us |-> us]

EmptyStr == EStr("empty", 0, 0, 0, 0, 0, 0, 0)

\* What the identity service sends as the expiry of a token.
ServerExpiries ==
    { EStr("iso_z", 2024, 2, 29, 23, 0, 59, 0),
      EStr("rfc1123", 2025, 2, 28, 0, 0, 0, 0) }

\* Ledger holdings: a record carries a display URL or is malformed.
NftRecords ==
    { [identifier |-> "NFT-1", url |-> "https://u/1", wellFormed |-> TRUE],
      [identifier |-> "NFT-2", url |-> "https://u/2", wellFormed |-> TRUE],
      [identifier |-> "NFT-3", url |-> "", wellFormed |-> FALSE] }

SeqsUpTo(S, n) == UNION { [1..k -> S] : k \in 0..n }

\* An account holds each NFT once.
Holdings ==
    { h \in SeqsUpTo(NftRecords, MaxHoldings) :
        \A i, j \in 1..Len(h) : i # j => h[i] # h[j] }

----------------------------------------------------------------------------
(* Session Store (profiles.LockiIdProfile): modelled from spec 3, 4.3, 6 *)

EmptyProfile ==
    [address |-> "", api_key |-> "", token |-> "", expires |-> EmptyStr,
     nonce |-> 0, nfts |-> <<>>]

MissingFile == [present |-> FALSE, address |-> "", apiKey |-> "", token |-> "",
                expires |-> EmptyStr, nonce |-> 0, nfts |-> <<>>]

\* save_json: serialise the class attributes into the JSON object of spec 6.
ToJson(p) ==
    [present |-> TRUE, address |-> p.address, apiKey |-> p.api_key,
     token |-> p.token, expires |-> p.expires, nonce |-> p.nonce,
     nfts |-> p.nfts]

\* read_json: a missing file is an all-empty Session.
FromJson(f) ==
    IF ~f.present THEN EmptyProfile
    ELSE [address |-> f.address, api_key |-> f.apiKey, token |-> f.token,
          expires |-> f.expires, nonce |-> f.nonce, nfts |-> f.nfts]

\* profiles.save_as_active_profile(auth_result, address, api_key, {}, "0"):
\* populates the singleton fields from its arguments (the nonce "0" is kept
\* as the number 0, the empty extra as no NFTs); its save is the ToJson
\* that follows it in LockiIdLogin_execute.
save_as_active_profile(auth, address, api_key) ==
    [address |-> address, api_key |-> api_key, token |-> auth.token,
     expires |-> auth.expires, nonce |-> 0, nfts |-> <<>>]

\* profiles.logout(address): resets every field to its default; its save is
\* the ToJson that follows it in the operators.
profiles_logout(p) == EmptyProfile

----------------------------------------------------------------------------
(* Remote Identity Client (communication): modelled from spec 4.1, 7 *)

NoneStr == "<None>"

\* net is "up" or "down"; the service accepts a key iff it is in ValidKeys.
locki_id_server_authenticate(api_key, net, token, exp) ==
    IF net = "down"
    THEN [success |-> FALSE, token |-> "", expires |-> EmptyStr,
          error_message |-> "Unable to connect to the identity service"]
    ELSE IF api_key \in ValidKeys
    THEN [success |-> TRUE, token |-> token, expires |-> exp,
          error_message |-> ""]
    ELSE [success |-> FALSE, token |-> "", expires |-> EmptyStr,
          error_message |-> "Authentication failed: invalid API key"]

ValidateOutcomes == {"valid", "expired", "down"}

\* Returns the pair (expires, err); err is NoneStr on success.
locki_id_server_validate(token, outcome, exp) ==
    CASE outcome = "valid" -> [expires |-> exp, err |-> NoneStr]
      [] outcome = "expired" -> [expires |-> EmptyStr, err |-> "Token expired"]
      [] OTHER -> [expires |-> EmptyStr,
                   err |-> "Unable to connect to the identity service"]

----------------------------------------------------------------------------
(* Remote Ledger Client (mvx_requests): modelled from spec 4.2 *)

RECURSIVE get_urllist_from_list(_)
\* One display URL per record, in order, skipping malformed records.
get_urllist_from_list(records) ==
    IF records = <<>> THEN <<>>
    ELSE LET r == Head(records)
             rest == get_urllist_from_list(Tail(records))
         IN IF r.wellFormed THEN <<r.url>> \o rest ELSE rest

\* One menu entry per URL.
transform_nft_urls_in_menu(urls) ==
    [i \in 1..Len(urls) |-> <<urls[i], urls[i], "Choose your nft">>]

----------------------------------------------------------------------------
(* Accessors: src/__init__.py 47-71 *)

\* Python truthiness of a str.
Truthy(s) == s # ""

NoProfile == [none |-> TRUE]

get_active_address == profile.address

\* Mutant of get_active_profile: the token decides instead of the address.
get_active_profile_by_token ==
    IF ~Truthy(profile.token) THEN NoProfile
    ELSE [none |-> FALSE] @@ profile

get_active_profile ==
    IF ~Truthy(profile.address) THEN NoProfile
    ELSE [none |-> FALSE] @@ profile

is_logged_in == profile.address # ""

----------------------------------------------------------------------------
(* token_expires: src/__init__.py 74-101 *)

\* A datetime.datetime (naive), None, or an exception that escaped.
Instant(y, mo, d, h, mi, s, us) ==
    [kind |-> "datetime", Y |-> y, mo |-> mo, d |-> d, H |-> h, Mi |-> mi,
     S |-> s, us |-> us]

NoneInstant ==
    [kind |-> "None", Y |-> 0, mo |-> 0, d |-> 0, H |-> 0, Mi |-> 0,
     S |-> 0, us |-> 0]

RaisedValueError ==
    [kind |-> "ValueError", Y |-> 0, mo |-> 0, d |-> 0, H |-> 0, Mi |-> 0,
     S |-> 0, us |-> 0]

IsLeap(y) == (y % 4 = 0 /\ y % 100 # 0) \/ y % 400 = 0

DaysInMonth(y, mo) ==
    IF mo = 2 THEN (IF IsLeap(y) THEN 29 ELSE 28)
    ELSE IF mo \in {4, 6, 9, 11} THEN 30 ELSE 31

\* What the datetime constructor accepts.
ValidFields(x) ==
    /\ x.Y \in 1..9999
    /\ x.mo \in 1..12
    /\ x.d \in 1..DaysInMonth(x.Y, x.mo)
    /\ x.H \in 0..23
    /\ x.Mi \in 0..59
    /\ x.S \in 0..59
    /\ x.us \in 0..999999

\* datetime.datetime.strptime(exp, fmt): the text must have the skeleton of
\* fmt and its fields must form a date, otherwise ValueError.  Only %f
\* yields microseconds.  (The weekday name of %a is read and not compared
\* with the date.)
strptime(exp, fmt) ==
    IF exp.layout = fmt /\ ValidFields(exp)
    THEN Instant(exp.Y, exp.mo, exp.d, exp.H, exp.Mi, exp.S,
                 IF fmt = "iso_frac" THEN exp.us ELSE 0)
    ELSE RaisedValueError

\* Lines 88-92.
formats == <<"iso_z", "iso_frac", "rfc1123">>

RECURSIVE TryFormats(_, _)
\* Lines 93-101: the first format that parses wins; None after the last.
TryFormats(exp, i) ==
    IF i > Len(formats) THEN NoneInstant
    ELSE LET r == strptime(exp, formats[i])
         IN IF r.kind # "ValueError" THEN r ELSE TryFormats(exp, i + 1)

RECURSIVE TryFormatsNoRfc(_, _)
TryFormatsNoRfc(exp, i) ==
    IF i > 2 THEN NoneInstant
    ELSE LET r == strptime(exp, formats[i])
         IN IF r.kind # "ValueError" THEN r ELSE TryFormatsNoRfc(exp, i + 1)

\* Mutant of token_expires_of: the RFC 1123 format is left out.
token_expires_no_rfc(exp) ==
    IF exp.layout = "empty" THEN NoneInstant ELSE TryFormatsNoRfc(exp, 1)

token_expires_of(exp) ==
    IF exp.layout = "empty" THEN NoneInstant ELSE TryFormats(exp, 1)

token_expires == token_expires_of(profile.expires)

----------------------------------------------------------------------------
(* Messages and the trace of the last operator *)

NoMsg == <<>>

NoPopup == [kind |-> "none", title |-> "", n |-> 0]

DefaultPrefs ==
    [address |-> "", api_key |-> "", nonce |-> 0,
     error_message |-> NoMsg, ok_message |-> NoMsg]

\* LockiIdPreferences.reset_messages, called by LockiIdMixin.addon_prefs
\* at the start of every operator.
reset_messages(pr) == [pr EXCEPT !.ok_message = NoMsg, !.error_message = NoMsg]

NoOp ==
    [op |-> "none", remote |-> "none", ret |-> "none", calls |-> <<>>,
     pre |-> EmptyProfile, preDisk |-> MissingFile, preNonce |-> 0,
     popup |-> NoPopup,
     fetched |-> <<>>, error_message |-> NoMsg, ok_message |-> NoMsg]

\* The state an operator leaves and what it did on the way (last keeps the
\* two messages as the operator left them); fetched is what
\* the remote call returned (the holdings, the expiry of a valid token).
Outcome(p, d, pr, remote, ret, calls, popup, fetched) ==
    [profile |-> p, disk |-> d, prefs |-> pr, remote |-> remote, ret |-> ret,
     calls |-> calls, popup |-> popup, fetched |-> fetched]

Apply(name, o) ==
    /\ profile' = o.profile
    /\ disk' = o.disk
    /\ prefs' = o.prefs
    /\ last' = [op |-> name, remote |-> o.remote, ret |-> o.ret,
                calls |-> o.calls, pre |-> profile, preDisk |-> disk,
                preNonce |-> prefs.nonce,
                popup |-> o.popup, fetched |-> o.fetched,
                error_message |-> o.prefs.error_message,
                ok_message |-> o.prefs.ok_message]
    /\ UNCHANGED <<expiry, panel>>

----------------------------------------------------------------------------
(* LockiIdLogin.execute: src/__init__.py 225-261 *)

LockiIdLogin_execute(entered, net, token, exp) ==
    LET addon_prefs == reset_messages(entered)
        auth_result == locki_id_server_authenticate(addon_prefs.api_key, net, token, exp)
        remote == IF auth_result.success THEN "ok"
                  ELSE IF net = "down" THEN "down" ELSE "rejected"
    IN IF auth_result.success
       THEN LET p1 == save_as_active_profile(auth_result, addon_prefs.address,
                                             addon_prefs.api_key)
                d1 == ToJson(p1)
            IN Outcome(FromJson(d1), d1,
                       [addon_prefs EXCEPT !.ok_message = <<"Logged in">>],
                       remote, "FINISHED",
                       <<"authenticate", "save_as_active_profile", "save_json",
                         "read_json">>,
                       NoPopup, <<>>)
       ELSE LET pr1 == [addon_prefs EXCEPT !.error_message =
                            IF auth_result.error_message = "" THEN NoMsg
                            ELSE <<auth_result.error_message>>]
            IN IF Truthy(profile.address)
               THEN LET p1 == profiles_logout(profile)
                        d1 == ToJson(p1)
                    IN Outcome(FromJson(d1), d1, pr1, remote, "FINISHED",
                               <<"authenticate", "profiles.logout", "save_json",
                                 "read_json">>,
                               NoPopup, <<>>)
               ELSE Outcome(FromJson(disk), disk, pr1, remote, "FINISHED",
                            <<"authenticate", "read_json">>, NoPopup, <<>>)

\* The user fills in the two preference fields (src/__init__.py 117-127,
\* 203-207) and presses Login.
Login ==
    \E a \in Addresses, k \in ApiKeys, net \in {"up", "down"},
       token \in Tokens, exp \in ServerExpiries :
        Apply("login",
              LockiIdLogin_execute([prefs EXCEPT !.address = a, !.api_key = k],
                                   net, token, exp))

----------------------------------------------------------------------------
(* validate_token and LockiIdValidate.execute: src/__init__.py 264-298 *)

\* Mutant of validate_token: the new expiry is assigned and not saved
\* (line 296 dropped).
validate_token_no_save(outcome, exp) ==
    LET r == locki_id_server_validate(profile.token, outcome, exp)
    IN IF r.err # NoneStr
       THEN [err |-> r.err, profile |-> profile, disk |-> disk,
             calls |-> <<"validate">>]
       ELSE [err |-> NoneStr, profile |-> [profile EXCEPT !.expires = r.expires],
             disk |-> disk, calls |-> <<"validate", "set expires">>]

\* Returns err and the profile/disk validate_token leaves.
validate_token(outcome, exp) ==
    LET r == locki_id_server_validate(profile.token, outcome, exp)
    IN IF r.err # NoneStr
       THEN [err |-> r.err, profile |-> profile, disk |-> disk,
             calls |-> <<"validate">>]
       ELSE LET p1 == [profile EXCEPT !.expires = r.expires]
            IN [err |-> NoneStr, profile |-> p1, disk |-> ToJson(p1),
                calls |-> <<"validate", "set expires", "save_json">>]

\* Mutant of LockiIdValidate_execute: a validation error forces a local
\* logout, as a failed login does.
LockiIdValidate_execute_logout_on_error(outcome, exp) ==
    LET addon_prefs == reset_messages(prefs)
        v == validate_token(outcome, exp)
    IN IF v.err = NoneStr
       THEN Outcome(FromJson(v.disk), v.disk,
                    [addon_prefs EXCEPT !.ok_message =
                         <<"Authentication token is valid">>],
                    outcome, "FINISHED", v.calls \o <<"read_json">>,
                    NoPopup, <<>>)
       ELSE LET d1 == ToJson(profiles_logout(profile))
            IN Outcome(FromJson(d1), d1,
                       [addon_prefs EXCEPT !.error_message =
                            <<v.err, "; you probably want to log out and log in again">>],
                       outcome, "FINISHED",
                       v.calls \o <<"profiles.logout", "save_json", "read_json">>,
                       NoPopup, <<>>)

LockiIdValidate_execute(outcome, exp) ==
    LET addon_prefs == reset_messages(prefs)
        v == validate_token(outcome, exp)
        pr1 == IF v.err = NoneStr
               THEN [addon_prefs EXCEPT !.ok_message =
                         <<"Authentication token is valid">>]
               ELSE [addon_prefs EXCEPT !.error_message =
                         <<v.err, "; you probably want to log out and log in again">>]
    IN Outcome(FromJson(v.disk), v.disk, pr1, outcome, "FINISHED",
               v.calls \o <<"read_json">>, NoPopup,
               IF v.err = NoneStr THEN <<exp>> ELSE <<>>)

Validate ==
    \E outcome \in ValidateOutcomes, exp \in ServerExpiries :
        Apply("validate", LockiIdValidate_execute(outcome, exp))

----------------------------------------------------------------------------
(* LockiIdLogout.execute: src/__init__.py 300-314 *)

LogoutOutcomes == {"ok", "rejected", "down"}

\* Mutant of LockiIdLogout_execute: the local logout runs only when the
\* server-side invalidation went through.
LockiIdLogout_execute_server_first(outcome) ==
    LET addon_prefs == reset_messages(prefs)
        d1 == ToJson(profiles_logout(profile))
    IN IF outcome = "ok"
       THEN Outcome(FromJson(d1), d1,
                    [addon_prefs EXCEPT !.ok_message = <<"You have been logged out">>],
                    outcome, "FINISHED",
                    <<"server_logout", "profiles.logout", "save_json", "read_json">>,
                    NoPopup, <<>>)
       ELSE Outcome(FromJson(disk), disk,
                    [addon_prefs EXCEPT !.error_message = <<"Logout failed">>],
                    outcome, "FINISHED", <<"server_logout", "read_json">>,
                    NoPopup, <<>>)

\* The result of locki_id_server_logout is not looked at.
LockiIdLogout_execute(outcome) ==
    LET addon_prefs == reset_messages(prefs)
        p1 == profiles_logout(profile)
        d1 == ToJson(p1)
    IN Outcome(FromJson(d1), d1,
               [addon_prefs EXCEPT !.ok_message = <<"You have been logged out">>],
               outcome, "FINISHED",
               <<"server_logout", "profiles.logout", "save_json", "read_json">>,
               NoPopup, <<>>)

Logout ==
    \E outcome \in LogoutOutcomes : Apply("logout", LockiIdLogout_execute(outcome))

----------------------------------------------------------------------------
(* UTILS_OT_get_nonce.execute: src/__init__.py 323-335 *)

\* mvx_requests.check_address_nonce: {nonce} or a falsy result.
check_address_nonce(address, outcome, n) ==
    IF outcome = "ok" THEN [truthy |-> TRUE, nonce |-> n]
    ELSE [truthy |-> FALSE, nonce |-> 0]

\* Line 332 subscripts result outside the `if result` guard: with a falsy
\* result the f-string raises and lines 334-335 are not reached.
UTILS_OT_get_nonce_execute(outcome, n) ==
    LET addon_prefs == reset_messages(prefs)
        result == check_address_nonce(profile.address, outcome, n)
    IN IF result.truthy
       THEN LET p1 == [profile EXCEPT !.nonce = result.nonce]
                d1 == ToJson(p1)
            IN Outcome(FromJson(d1), d1,
                       [addon_prefs EXCEPT !.nonce = result.nonce],
                       outcome, "FINISHED",
                       <<"check_address_nonce", "set nonce", "save_json",
                         "show_message", "read_json">>,
                       [kind |-> "nonce", title |-> profile.address,
                        n |-> result.nonce],
                       <<>>)
       ELSE Outcome(profile, disk, addon_prefs, outcome, "RAISED",
                    <<"check_address_nonce">>, NoPopup, <<>>)

NonceInputs == { <<"ok", n>> : n \in Nonces } \cup { <<"down", 0>> }

GetNonce ==
    \E in \in NonceInputs :
      LET outcome == in[1]
          n == in[2]
      IN Apply("get_nonce", UTILS_OT_get_nonce_execute(outcome, n))

----------------------------------------------------------------------------
(* UTILS_OT_get_nfts.execute: src/__init__.py 350-370 *)

\* mvx_requests.get_nftlist_from_address: the holdings, or a structured
\* failure that carries no record.
get_nftlist_from_address(address, outcome, holdings) ==
    IF outcome = "ok" THEN holdings ELSE <<>>

\* Mutant of UTILS_OT_get_nfts_execute: the fetched URLs are appended to the
\* stored list instead of replacing it.
UTILS_OT_get_nfts_execute_merge(outcome, holdings) ==
    LET addon_prefs == reset_messages(prefs)
        nft_list == get_nftlist_from_address(profile.address, outcome, holdings)
        nft_urls == get_urllist_from_list(nft_list)
        p1 == [profile EXCEPT !.nfts = profile.nfts \o nft_urls]
        count == Len(transform_nft_urls_in_menu(nft_urls))
        d1 == ToJson(p1)
    IN Outcome(FromJson(d1), d1,
               [addon_prefs EXCEPT !.ok_message = <<"You have loaded the NFTs">>],
               outcome, "FINISHED",
               <<"get_nftlist_from_address", "set nfts", "show_message",
                 "save_json", "read_json">>,
               [kind |-> "nfts", title |-> profile.address, n |-> count],
               nft_list)

\* Mutant of UTILS_OT_get_nfts_execute: the profile is rebuilt around the
\* new list instead of being changed in place.
UTILS_OT_get_nfts_execute_rebuild(outcome, holdings) ==
    LET addon_prefs == reset_messages(prefs)
        nft_list == get_nftlist_from_address(profile.address, outcome, holdings)
        nft_urls == get_urllist_from_list(nft_list)
        p1 == [EmptyProfile EXCEPT !.address = profile.address,
                                   !.nfts = nft_urls]
        count == Len(transform_nft_urls_in_menu(nft_urls))
        d1 == ToJson(p1)
    IN Outcome(FromJson(d1), d1,
               [addon_prefs EXCEPT !.ok_message = <<"You have loaded the NFTs">>],
               outcome, "FINISHED",
               <<"get_nftlist_from_address", "set nfts", "show_message",
                 "save_json", "read_json">>,
               [kind |-> "nfts", title |-> profile.address, n |-> count],
               nft_list)

UTILS_OT_get_nfts_execute(outcome, holdings) ==
    LET addon_prefs == reset_messages(prefs)
        nft_list == get_nftlist_from_address(profile.address, outcome, holdings)
        nft_urls == get_urllist_from_list(nft_list)
        p1 == [profile EXCEPT !.nfts = nft_urls]
        test == transform_nft_urls_in_menu(nft_urls)
        count == Len(test)
        d1 == ToJson(p1)
    IN Outcome(FromJson(d1), d1,
               [addon_prefs EXCEPT !.ok_message = <<"You have loaded the NFTs">>],
               outcome, "FINISHED",
               <<"get_nftlist_from_address", "set nfts", "show_message",
                 "save_json", "read_json">>,
               [kind |-> "nfts", title |-> profile.address, n |-> count],
               nft_list)

NftInputs == { <<"ok", h>> : h \in Holdings } \cup { <<"down", <<>> >> }

GetNfts ==
    \E in \in NftInputs :
      LET outcome == in[1]
          holdings == in[2]
      IN Apply("get_nfts", UTILS_OT_get_nfts_execute(outcome, holdings))

----------------------------------------------------------------------------
(* register(): src/__init__.py 429-456.  The persisted file is missing or  *)
(* holds the session of an earlier run; read_json loads it.                *)

StoredSessions ==
    { [address |-> "erd1a", api_key |-> "key-good", token |-> "tok1",
       expires |-> e, nonce |-> 0, nfts |-> <<>>] : e \in ServerExpiries }

\* Nothing drawn yet.
NoText == [kind |-> "none", n |-> 0]

NoPanel ==
    [drawn |-> FALSE, form |-> "none", now |-> NoneInstant,
     expiry |-> NoneInstant, days |-> 0, seconds |-> 0, exp_str |-> NoText,
     label |-> "none", msg |-> "none"]

NoExpiryCall ==
    [called |-> FALSE, exp |-> EmptyStr, res |-> NoneInstant,
     prevCalled |-> FALSE, prevExp |-> EmptyStr, prevRes |-> NoneInstant,
     other |-> EmptyStr]

Init ==
    /\ disk \in {MissingFile} \cup { ToJson(s) : s \in StoredSessions }
    /\ profile = FromJson(disk)
    /\ prefs = DefaultPrefs
    /\ last = NoOp
    /\ expiry = NoExpiryCall
    /\ panel = NoPanel

\* register() once more (the add-on is enabled again), lines 429-456: the
\* file is read and the messages are reset.
Register ==
    /\ profile' = FromJson(disk)
    /\ prefs' = reset_messages(prefs)
    /\ UNCHANGED <<disk, last, expiry, panel>>

\* unregister(), lines 459-488: the messages are reset (lines 461-462); the
\* Session and the file are left alone.
Unregister ==
    /\ prefs' = reset_messages(prefs)
    /\ UNCHANGED <<profile, disk, last, expiry, panel>>

Next ==
    \/ Login
    \/ Validate
    \/ Logout
    \/ GetNonce
    \/ GetNfts
    \/ Register
    \/ Unregister

Spec == Init /\ [][Next]_vars

----------------------------------------------------------------------------
(* token_expires as a function of the stored expiry string.                *)
(* The session of an earlier run is loaded with any expiry text; the same  *)
(* timestamp may later arrive written in another format ("A new Blender ID *)
(* is coming, which may change the format in which timestamps are sent").  *)

ExpYears == {2024, 2025}
ExpMonths == {2, 12, 13}
ExpDays == {29, 31}
ExpHours == {23, 24}
ExpSeconds == {59, 60}
ExpMicros == {0, 500000}

ExpiryStrings ==
    {EmptyStr} \cup
    { EStr(l, y, mo, d, h, 59, s, us) :
        l \in Layouts \ {"empty"}, y \in ExpYears, mo \in ExpMonths,
        d \in ExpDays, h \in ExpHours, s \in ExpSeconds, us \in ExpMicros }

\* Only the fractional layout has digits for the microseconds.
WellTyped(x) == x.layout # "iso_frac" => x.us = 0

SameClock(a, b) ==
    /\ a.Y = b.Y /\ a.mo = b.mo /\ a.d = b.d
    /\ a.H = b.H /\ a.Mi = b.Mi /\ a.S = b.S

InitExpiry ==
    /\ \E a \in ExpiryStrings, b \in ExpiryStrings :
          /\ WellTyped(a) /\ WellTyped(b)
          /\ SameClock(a, b) \/ b = EmptyStr
          /\ profile = [address |-> "erd1a", api_key |-> "key-good",
                        token |-> "tok1", expires |-> a, nonce |-> 0,
                        nfts |-> <<>>]
          /\ expiry = [NoExpiryCall EXCEPT !.other = b]
    /\ disk = ToJson(profile)
    /\ prefs = DefaultPrefs
    /\ last = NoOp
    /\ panel = NoPanel

\* A caller (the preferences panel) asks for the expiry.
TokenExpiresCall ==
    /\ expiry' = [expiry EXCEPT !.called = TRUE, !.exp = profile.expires,
                                !.res = token_expires,
                                !.prevCalled = expiry.called,
                                !.prevExp = expiry.exp,
                                !.prevRes = expiry.res]
    /\ UNCHANGED <<profile, disk, prefs, last, panel>>

\* The stored expiry is replaced by the other writing of the timestamp.
Reencode ==
    /\ expiry.called
    /\ profile.expires # expiry.other
    /\ profile' = [profile EXCEPT !.expires = expiry.other]
    /\ disk' = ToJson(profile')
    /\ expiry' = [expiry EXCEPT !.other = profile.expires]
    /\ UNCHANGED <<prefs, last, panel>>

NextExpiry == TokenExpiresCall \/ Reencode

SpecExpiry == InitExpiry /\ [][NextExpiry]_vars

----------------------------------------------------------------------------
(* LockiIdPreferences.draw: src/__init__.py 144-207 *)

\* Days before January 1st of year y and before the first of month mo, as
\* datetime counts them.
DaysBeforeYear(y) ==
    (y - 1) * 365 + ((y - 1) \div 4) - ((y - 1) \div 100) + ((y - 1) \div 400)

RECURSIVE DaysBeforeMonth(_, _)
DaysBeforeMonth(y, mo) ==
    IF mo <= 1 THEN 0
    ELSE DaysBeforeMonth(y, mo - 1) + DaysInMonth(y, mo - 1)

Ordinal(t) == DaysBeforeYear(t.Y) + DaysBeforeMonth(t.Y, t.mo) + t.d

SecondOfDay(t) == t.H * 3600 + t.Mi * 60 + t.S

\* expiry - now as a normalised timedelta: seconds in 0..86399 and
\* microseconds in 0..999999, the sign in days.
timedelta(a, b) ==
    LET dS == (Ordinal(a) - Ordinal(b)) * 86400 + SecondOfDay(a) - SecondOfDay(b)
        dUs == a.us - b.us
        whole == IF dUs < 0 THEN dS - 1 ELSE dS
    IN [days |-> whole \div 86400, seconds |-> whole % 86400,
        microseconds |-> IF dUs < 0 THEN dUs + 1000000 ELSE dUs]

\* now >= expiry
NotBefore(now, exp) ==
    LET d == timedelta(exp, now)
    IN d.days < 0 \/ (d.days = 0 /\ d.seconds = 0 /\ d.microseconds = 0)

\* round(n / d): halves go to the even neighbour.
Round(n, d) ==
    LET q == n \div d
        r == n % d
    IN IF 2 * r < d THEN q
       ELSE IF 2 * r > d THEN q + 1
       ELSE IF q % 2 = 0 THEN q ELSE q + 1

\* Lines 168-179.  'on {:%Y-%m-%d}' is kind "date"; n is the number shown.
exp_str_of(time_left) ==
    IF time_left.days > 14 THEN [kind |-> "date", n |-> 0]
    ELSE IF time_left.days > 1 THEN [kind |-> "days", n |-> time_left.days]
    ELSE IF time_left.seconds >= 7200
    THEN [kind |-> "hours", n |-> Round(time_left.seconds, 3600)]
    ELSE IF time_left.seconds >= 120
    THEN [kind |-> "minutes", n |-> Round(time_left.seconds, 60)]
    ELSE [kind |-> "within seconds", n |-> 0]

\* now is datetime.utcnow(); endpoint tells whether
\* communication.auth_endpoint() is the default AUTH_ENDPOINT.
draw(now, endpoint) ==
    LET active_profile == get_active_profile
    IN IF active_profile.none
       THEN [NoPanel EXCEPT !.drawn = TRUE, !.form = "login", !.now = now]
       ELSE LET exp == token_expires
            IN IF exp.kind = "None"
               THEN [NoPanel EXCEPT !.drawn = TRUE, !.form = "unknown",
                                    !.now = now]
               ELSE IF NotBefore(now, exp)
               THEN [NoPanel EXCEPT !.drawn = TRUE, !.form = "expired",
                                    !.now = now, !.expiry = exp]
               ELSE LET time_left == timedelta(exp, now)
                    IN [drawn |-> TRUE, form |-> "left", now |-> now,
                        expiry |-> exp, days |-> time_left.days,
                        seconds |-> time_left.seconds,
                        exp_str |-> exp_str_of(time_left),
                        label |-> IF time_left.days < 14 THEN "will expire"
                                  ELSE "expires",
                        msg |-> IF endpoint = "default" THEN "logged with key"
                                ELSE "logged in at endpoint"]

\* Clock readings around the expiries of DrawExpiries.
NowInstants ==
    { Instant(2024, 2, d, h, mi, s, 0) :
        d \in {14, 15, 27, 28, 29}, h \in {0, 21, 22, 23}, mi \in {0, 59},
        s \in {0, 29, 59} }

DrawExpiries ==
    ServerExpiries \cup
    { EmptyStr,
      EStr("iso_frac", 2024, 2, 29, 23, 0, 59, 500000),
      EStr("iso_noz", 2024, 2, 29, 23, 0, 59, 0) }

InitDraw ==
    /\ disk \in {MissingFile} \cup
          { ToJson([address |-> "erd1a", api_key |-> "key-good",
                    token |-> "tok1", expires |-> e, nonce |-> 0,
                    nfts |-> <<>>]) : e \in DrawExpiries }
    /\ profile = FromJson(disk)
    /\ prefs = DefaultPrefs
    /\ last = NoOp
    /\ expiry = NoExpiryCall
    /\ panel = NoPanel

Draw ==
    /\ \E now \in NowInstants, endpoint \in {"default", "custom"} :
          panel' = draw(now, endpoint)
    /\ UNCHANGED <<profile, disk, prefs, last, expiry>>

SpecDraw == InitDraw /\ [][Draw]_vars

----------------------------------------------------------------------------
(* Properties *)

Has(calls, c) == \E i \in 1..Len(calls) : calls[i] = c

\* The message the identity client attaches to a failed authentication.
AuthFailureMessage(remote) ==
    IF remote = "down" THEN <<"Unable to connect to the identity service">>
    ELSE <<"Authentication failed: invalid API key">>

LoginFailed == last.op = "login" /\ last.remote \in {"rejected", "down"}

\* C1: whenever authenticate returns success the login operator ends logged
\* in: is_logged_in() is true, Session.address is the address entered in the
\* preferences, Session.token is non-empty and the persisted file holds the
\* same values.
C1_LoginSuccessEndsLoggedIn ==
    (last.op = "login" /\ last.remote = "ok") =>
        /\ is_logged_in
        /\ profile.address = prefs.address
        /\ profile.token # ""
        /\ disk.present
        /\ disk.address = profile.address
        /\ disk.token = profile.token

\* C2: a failed login over a previous session ends with an empty address,
\* after a server-side logout request and a local logout, and shows the
\* authentication failure message.  LockiIdLogin.execute (lines 254-257)
\* calls profiles.logout only, so no server-side logout request is made.
C2_FailedLoginServerAndLocalLogout ==
    (LoginFailed /\ last.pre.address # "") =>
        /\ profile.address = ""
        /\ Has(last.calls, "server_logout")
        /\ Has(last.calls, "profiles.logout")
        /\ last.error_message = AuthFailureMessage(last.remote)

ValidateFailed == last.op = "validate" /\ last.remote # "valid"

\* C3: when the server validation returns an error the validate operator
\* sets a non-empty error message and leaves address, token and expires as
\* they were; nothing is saved and no logout, local or server, is made.
C3_ValidateErrorKeepsSession ==
    ValidateFailed =>
        /\ last.error_message # NoMsg
        /\ profile.address = last.pre.address
        /\ profile.token = last.pre.token
        /\ profile.expires = last.pre.expires
        /\ is_logged_in = (last.pre.address # "")
        /\ disk = last.preDisk
        /\ ~Has(last.calls, "save_json")
        /\ ~Has(last.calls, "profiles.logout")
        /\ ~Has(last.calls, "server_logout")

C3_Witness ==
    /\ ValidateFailed
    /\ last.remote = "expired"
    /\ last.pre.address # ""
    /\ last.pre.expires # EmptyStr
    /\ is_logged_in

\* C4: the logout operator always ends logged out, in memory and in the
\* persisted file (a later load shows an empty address too), whatever the
\* server-side invalidation answered; a failed invalidation does not keep
\* the local clear from running.
C4_LogoutAlwaysLogsOut ==
    last.op = "logout" =>
        /\ profile.address = ""
        /\ ~is_logged_in
        /\ disk.address = ""
        /\ FromJson(disk).address = ""
        /\ Has(last.calls, "profiles.logout")
        /\ last.ret = "FINISHED"

C4_Witness ==
    /\ last.op = "logout"
    /\ last.remote = "down"
    /\ last.pre.address # ""
    /\ profile.address = ""

Surfaced == last.error_message # NoMsg \/ last.popup.kind # "none"

\* C5: when the remote call of login, validate, refresh-nonce or
\* refresh-NFTs fails at transport level, the operator surfaces a message
\* and leaves every Session field as it was.
C5_TransportFailureKeepsSession ==
    (last.op \in {"login", "validate", "get_nonce", "get_nfts"}
        /\ last.remote = "down") =>
        /\ Surfaced
        /\ profile = last.pre

\* C6: refresh-nonce and refresh-NFTs leave address, apiKey, token and
\* expires as they were, so is_logged_in() is the same before and after;
\* refresh-nonce changes at most nonce, refresh-NFTs at most nfts.
C6_RefreshKeepsLoginStatus ==
    last.op \in {"get_nonce", "get_nfts"} =>
        /\ profile.address = last.pre.address
        /\ profile.api_key = last.pre.api_key
        /\ profile.token = last.pre.token
        /\ profile.expires = last.pre.expires
        /\ is_logged_in = (last.pre.address # "")
        /\ last.op = "get_nonce" => profile.nfts = last.pre.nfts
        /\ last.op = "get_nfts" => profile.nonce = last.pre.nonce

C6_Witness ==
    /\ last.op = "get_nfts"
    /\ last.pre.address # ""
    /\ last.pre.token # ""
    /\ last.pre.expires # EmptyStr
    /\ profile.nfts # last.pre.nfts

\* The display URLs of the well-formed records, in the order fetched.
ExpectedUrls(h) ==
    LET w == SelectSeq(h, LAMBDA r : r.wellFormed)
    IN [i \in 1..Len(w) |-> w[i].url]

\* C7: after refresh-NFTs, Session.nfts in memory and on disk is exactly
\* the URL list extracted from the holdings just fetched (the previous list
\* is replaced, not merged) and the popup reports its count; with zero
\* holdings the list is empty, the popup says 0, no error message is set
\* and the operator finishes.
C7_NftsReplacedWholesale ==
    (last.op = "get_nfts" /\ last.remote = "ok") =>
        /\ profile.nfts = ExpectedUrls(last.fetched)
        /\ disk.nfts = ExpectedUrls(last.fetched)
        /\ last.popup.kind = "nfts"
        /\ last.popup.n = Len(profile.nfts)
        /\ last.error_message = NoMsg
        /\ last.ret = "FINISHED"
        /\ last.fetched = <<>> => (profile.nfts = <<>> /\ last.popup.n = 0)

C7_Witness ==
    /\ last.op = "get_nfts"
    /\ last.remote = "ok"
    /\ last.pre.nfts # <<>>
    /\ last.fetched = <<>>
    /\ profile.nfts = <<>>

\* The calendar, written out for the years of ExpYears.
IsTimestamp(x) ==
    /\ x.mo \in 1..12
    /\ \/ x.d \in 1..28
       \/ x.d = 29 /\ (x.mo # 2 \/ x.Y = 2024)
       \/ x.d = 30 /\ x.mo # 2
       \/ x.d = 31 /\ x.mo \in {1, 3, 5, 7, 8, 10, 12}
    /\ x.H < 24 /\ x.Mi < 60 /\ x.S < 60

Supported(x) == x.layout \in {"iso_z", "iso_frac", "rfc1123"} /\ IsTimestamp(x)

SameInstantOf(x, r) ==
    /\ r.kind = "datetime"
    /\ r.Y = x.Y /\ r.mo = x.mo /\ r.d = x.d
    /\ r.H = x.H /\ r.Mi = x.Mi /\ r.S = x.S /\ r.us = x.us

\* C8: token_expires returns the instant written in the string when the
\* string is a timestamp in one of the three formats, the same instant for
\* the same timestamp written in each of them, and None (never an
\* exception) for an empty string or one in none of the three formats.
C8_ParseExpiry ==
    expiry.called =>
        /\ expiry.res.kind \in {"datetime", "None"}
        /\ Supported(expiry.exp) => SameInstantOf(expiry.exp, expiry.res)
        /\ ~Supported(expiry.exp) => expiry.res = NoneInstant
        /\ (/\ expiry.prevCalled
            /\ Supported(expiry.exp) /\ Supported(expiry.prevExp)
            /\ SameClock(expiry.exp, expiry.prevExp)
            /\ expiry.exp.us = expiry.prevExp.us)
           => expiry.res = expiry.prevRes

C8_Witness ==
    /\ expiry.called /\ expiry.prevCalled
    /\ expiry.prevExp.layout = "iso_frac"
    /\ expiry.exp.layout = "rfc1123"
    /\ Supported(expiry.exp) /\ Supported(expiry.prevExp)
    /\ expiry.exp.us = expiry.prevExp.us
    /\ expiry.res.kind = "datetime"
    /\ expiry.res = expiry.prevRes

\* Every "set ..." in the calls is followed by a save_json.
SetsAreSaved(calls) ==
    \A i \in 1..Len(calls) :
        calls[i] \in {"set expires", "set nonce", "set nfts",
                      "save_as_active_profile", "profiles.logout"}
            => \E j \in (i + 1)..Len(calls) : calls[j] = "save_json"

\* C9: in every operator each in-memory change is saved before the final
\* reload, every operator ends with that reload, and so the in-memory
\* Session equals the persisted one afterwards.
C9_PersistThenReload ==
    last.op # "none" =>
        /\ SetsAreSaved(last.calls)
        /\ Len(last.calls) > 0
        /\ last.calls[Len(last.calls)] = "read_json"
        /\ profile = FromJson(disk)

\* C10: is_logged_in() is true iff Session.address is not "" iff
\* get_active_profile() is not None, and get_active_address() is "" exactly
\* when there is no active profile.
C10_AccessorsAgree ==
    /\ is_logged_in <=> profile.address # ""
    /\ is_logged_in <=> ~get_active_profile.none
    /\ (get_active_address = "") <=> get_active_profile.none

C10_Witness ==
    /\ last.op = "login"
    /\ last.remote = "ok"
    /\ profile.token # ""
    /\ ~is_logged_in
    /\ get_active_profile.none

\* C11: when the server validation succeeds, Session.expires is the expiry
\* the service returned, saved before the reload; the ok message is set and
\* the error message is empty; address, apiKey, token, nonce and nfts are
\* as they were.
C11_ValidateSuccessRefreshesExpires ==
    (last.op = "validate" /\ last.remote = "valid") =>
        /\ last.fetched # <<>>
        /\ profile.expires = last.fetched[1]
        /\ disk.expires = last.fetched[1]
        /\ \E i, j \in 1..Len(last.calls) :
              /\ i < j /\ j < Len(last.calls)
              /\ last.calls[i] = "set expires"
              /\ last.calls[j] = "save_json"
        /\ last.calls[Len(last.calls)] = "read_json"
        /\ last.ok_message = <<"Authentication token is valid">>
        /\ last.error_message = NoMsg
        /\ profile = [last.pre EXCEPT !.expires = profile.expires]

C11_Witness ==
    /\ last.op = "validate"
    /\ last.remote = "valid"
    /\ last.pre.address # ""
    /\ last.pre.expires # EmptyStr
    /\ profile.expires # last.pre.expires
    /\ last.pre.nfts # <<>>

\* C12: when the ledger nonce lookup yields no result, refresh-nonce leaves
\* Session.nonce and the preference nonce as they were, does not save, and
\* still runs to completion: it reloads and returns FINISHED.
C12_NoNonceResultStillCompletes ==
    (last.op = "get_nonce" /\ last.remote = "down") =>
        /\ profile.nonce = last.pre.nonce
        /\ prefs.nonce = last.preNonce
        /\ ~Has(last.calls, "save_json")
        /\ Has(last.calls, "read_json")
        /\ last.ret = "FINISHED"

\* Seconds from the clock reading to the expiry shown, days and seconds of
\* the day together.
TotalLeft == panel.days * 86400 + panel.seconds

\* C13: for a logged-in session with a known, unexpired expiry the
\* humanised text agrees with the total time remaining: 'within seconds'
\* only under 120 seconds, 'in N minutes' only under 2 hours, 'in N hours'
\* only up to 2 days, 'in N days' only beyond 1 day, the date only beyond
\* 14 days.
C13_HumanisedExpiryMatchesTotal ==
    (panel.drawn /\ panel.form = "left") =>
        /\ panel.exp_str.kind = "within seconds" => TotalLeft < 120
        /\ panel.exp_str.kind = "minutes" => TotalLeft < 7200
        /\ panel.exp_str.kind = "hours" => TotalLeft <= 2 * 86400
        /\ panel.exp_str.kind = "days" => TotalLeft > 86400
        /\ panel.exp_str.kind = "date" => TotalLeft > 14 * 86400

====
